---- MODULE Spec2Model ----
(***************************************************************************)
(* RenderJobQueue (services/rendering/job-queue.ts): the priority queue of *)
(* render jobs with concurrency gating, deadline race and bounded retry.   *)
(*                                                                         *)
(* One action per handler of the class.  A handler runs to its first await *)
(* without interruption (single-threaded event loop), so every action is   *)
(* the whole synchronous run of the handler, the trailing processNext()    *)
(* call included.  The duration of the render work and the order in which  *)
(* the work and the deadline timer of an attempt fire are the environment's*)
(* choice ("would call the GPU renderer in real implementation").          *)
(***************************************************************************)
EXTENDS Integers, Sequences, FiniteSets, TLC

\* ---- bounds of the model ------------------------------------------------
\* renderingConfig.maxConcurrentJobs and renderingConfig.jobQueueDepthLimit,
\* scaled down from 10 and 100
maxConcurrentJobs == 2
jobQueueDepthLimit == 3
\* A run explores one of three workloads.
\* Priority workload: MaxJobs accepted submissions (job ids are handed out in
\* order) with request.priority drawn from 1..NumPriorities, one failing attempt.
MaxJobs == 3
NumPriorities == 2
\* Retry workload: RetryJobs submissions of one priority, MaxFailures failing
\* attempts, MaxStale timed-out attempts whose render is still running at once.
RetryJobs == 2
MaxFailures == 3
MaxStale == 1
\* Overload workload: one submission more than the waiting queue holds, one
\* priority, one failing attempt.
OverloadJobs == jobQueueDepthLimit + 1

Workloads ==
    { [jobs |-> MaxJobs, prios |-> NumPriorities, failures |-> 1, stale |-> 1],
      [jobs |-> RetryJobs, prios |-> 1, failures |-> MaxFailures, stale |-> MaxStale],
      [jobs |-> OverloadJobs, prios |-> 1, failures |-> 1, stale |-> 0] }

\* file sizes of the timeout calculation, in MB
MaxSizeMB == 600

\* The sync manager syncs MaxFiles files; a run explores one of two workloads.
\* Tier workload: TierSyncs accepted requests of every tier, direction and size.
\* Queue workload: MaxSyncs accepted requests of one tier, direction and size.
MaxFiles == 2
TierSyncs == 2
MaxSyncs == 3
MaxExports == 3
MaxExportJobs == 2
\* a batch export requests at most MaxFormats formats
MaxFormats == 4

\* ---- program constants --------------------------------------------------
maxRetries == 3
renderTimeoutMs == 30000
exportTimeoutMs == 45000
syncTimeoutMs == 60000
maxFileSizeMB == 100

Tiers == {"free", "pro", "enterprise"}
Operations == {"render", "export", "sync"}
TIER_TIMEOUT_MULTIPLIERS == [free |-> 1, pro |-> 2, enterprise |-> 4]
TIER_FILE_SIZE_LIMITS == [free |-> 50, pro |-> 200, enterprise |-> 500]
\* the optional tier argument left out
NoTier == "undefined"

Ids == 1..(IF MaxJobs >= OverloadJobs THEN MaxJobs ELSE OverloadJobs)
Priorities == 1..NumPriorities
NoId == 0

VARIABLES
    queue,          \* RenderJobQueue.queue: sequence of job ids, head first
    activeJobs,     \* RenderJobQueue.activeJobs: set of job ids (Map keys)
    completedJobs,  \* RenderJobQueue.completedJobs: id -> RenderResult
    jobs,           \* the QueuedRenderJob objects, by id
    pending,        \* attempts <<id, n>> whose executeWithTimeout promise is unsettled
    work,           \* attempts <<id, n>> whose simulateRender is still running
    retryTimers,    \* the armed setTimeout(() => processNext(), retryBackoffMs), oldest
                    \* first, each named by the job whose failure armed it
    nextId,         \* the job id the caller generates for the next submission
    cancelled,      \* ids for which cancelJob returned true
    ret,            \* what the last enqueue / cancelJob call returned
    disp,           \* what the last processNext call saw and did
    workload,       \* the workload of this run (never changes)
    failCount,      \* per job id, the attempts whose promise was rejected
    fileSizeMB,     \* request.file.sizeMB of the job whose timeout is computed
    userTier,       \* request.userTier of that job
    operation,      \* the operation getTimeoutForFileSize is asked about
    armedTimeout,   \* timeoutMs, the delay executeWithTimeout arms for the job
    sizeTimeout,    \* what getTimeoutForFileSize(fileSizeMB, operation) returned
    jobPriority,    \* what calculatePriority(userTier, fileSizeMB) returned, in 25ths
    sizeAllowed,    \* what isFileSizeAllowed(fileSizeMB, userTier) and
                    \* isFileSizeAllowed(fileSizeMB) returned
    syncQueue,      \* SyncManager.syncQueue: the waiting SyncQueueItems, head first
    activeSyncs,    \* SyncManager.activeSyncs: file id -> the request whose
                    \* AbortController is stored
    fileVersions,   \* SyncManager.fileVersions: file id -> SyncStatus.status
    syncPending,    \* items whose performSync promise is unsettled
    syncWork,       \* items whose simulateSync timer is still running
    syncAborted,    \* items whose signal was aborted, the rejection not yet delivered
    syncNext,       \* the number of the next accepted sync request
    syncRet,        \* what the last queueSync / cancelSync call returned
    lastEnded,      \* per file, how its latest ended sync ended
    syncWorkload,   \* the workload of this sync run (never changes)
    activeExports,  \* Exporter.activeExports: job id -> the exportFile call whose
                    \* AbortController is stored (NoCall: no entry)
    exportCalls,    \* the exportFile calls made so far, oldest first
    exportCancelled, \* the calls whose AbortController cancelExport aborted
    exportRet,      \* what the last cancelExport call returned
    batch           \* Exporter.batchExport: the configuration flag, the number of
                    \* requested formats, the results pushed so far, the format
                    \* whose exportFile is awaited, and whether it has returned

vars == <<queue, activeJobs, completedJobs, jobs, pending, work, retryTimers,
          nextId, cancelled, ret, disp, workload, failCount,
          fileSizeMB, userTier, operation, armedTimeout, sizeTimeout, jobPriority,
          sizeAllowed,
          syncQueue, activeSyncs, fileVersions, syncPending, syncWork, syncAborted,
          syncNext, syncRet, lastEnded, syncWorkload,
          activeExports, exportCalls, exportCancelled, exportRet, batch>>

exportVars == <<activeExports, exportCalls, exportCancelled, exportRet>>

syncVars == <<syncQueue, activeSyncs, fileVersions, syncPending, syncWork, syncAborted,
              syncNext, syncRet, lastEnded, syncWorkload>>

calcVars == <<fileSizeMB, userTier, operation, armedTimeout, sizeTimeout, jobPriority,
              sizeAllowed>>
queueVars == <<queue, activeJobs, completedJobs, jobs, pending, work, retryTimers,
               nextId, cancelled, ret, disp, workload, failCount>>

\* ---- helpers --------------------------------------------------------------
Max(a, b) == IF a >= b THEN a ELSE b
Min(a, b) == IF a <= b THEN a ELSE b

\* Map.set(k, v)
MapSet(f, k, v) == [x \in (DOMAIN f) \cup {k} |-> IF x = k THEN v ELSE f[x]]

\* Array.findIndex over the index set I of the matching entries:
\* the first of them, 0 for -1
FirstIndex(I) ==
    IF I = {} THEN 0 ELSE CHOOSE i \in I : \A k \in I : i <= k

SpliceOut_head(q, i) == Tail(q)

\* Array.splice(i, 0, x) and Array.splice(i, 1), 1-based
SpliceIn(q, i, x) == SubSeq(q, 1, i - 1) \o <<x>> \o SubSeq(q, i, Len(q))
SpliceOut(q, i) == SubSeq(q, 1, i - 1) \o SubSeq(q, i + 1, Len(q))

InQueue(q, id) == \E i \in 1..Len(q) : q[i] = id

NoDisp == [called |-> FALSE, len |-> 0, act |-> 0, started |-> NoId]
NoRet == [op |-> "none", id |-> NoId, value |-> FALSE]

\* the queue's state as one record, threaded through the handlers
Cur == [queue |-> queue, activeJobs |-> activeJobs, completedJobs |-> completedJobs,
        jobs |-> jobs, pending |-> pending, work |-> work,
        retryTimers |-> retryTimers, disp |-> NoDisp]

\* the state a handler leaves behind
Become(s) ==
    /\ queue' = s.queue
    /\ activeJobs' = s.activeJobs
    /\ completedJobs' = s.completedJobs
    /\ jobs' = s.jobs
    /\ pending' = s.pending
    /\ work' = s.work
    /\ retryTimers' = s.retryTimers
    /\ disp' = s.disp
    /\ UNCHANGED workload
    /\ UNCHANGED calcVars
    /\ UNCHANGED syncVars
    /\ UNCHANGED exportVars
    /\ UNCHANGED batch

\* ---- processNext ----------------------------------------------------------
\* calculateMemoryPressure, as a numerator over jobQueueDepthLimit:
\* max(activeJobs.size / 1, queue.length / jobQueueDepthLimit)
calculateMemoryPressure(s) ==
    Max(Cardinality(s.activeJobs) * jobQueueDepthLimit, Len(s.queue))

\* memoryPressure > 0.7
PressureHigh(s) == 10 * calculateMemoryPressure(s) > 7 * jobQueueDepthLimit

\* activeJobs.size >= maxConcurrentJobs
AtCapacity(s) == Cardinality(s.activeJobs) >= maxConcurrentJobs

StartHead_noincrement(s) ==
    LET id == Head(s.queue)
        n == s.jobs[id].attempts + 1
    IN [s EXCEPT !.queue = Tail(s.queue),
                 !.activeJobs = s.activeJobs \cup {id},
                 !.jobs[id].status = "processing",
                 !.jobs[id].started = TRUE,
                 !.pending = s.pending \cup {<<id, n>>},
                 !.work = s.work \cup {<<id, n>>}]

\* queue.shift(), mark as processing, activeJobs.set, executeWithTimeout(job):
\* the deadline timer is armed and simulateRender starts
StartHead(s) ==
    LET id == Head(s.queue)
        j == s.jobs[id]
        n == j.attempts + 1
    IN [s EXCEPT !.queue = Tail(s.queue),
                 !.activeJobs = s.activeJobs \cup {id},
                 !.jobs[id] = [j EXCEPT !.status = "processing",
                                        !.started = TRUE,
                                        !.attempts = n],
                 !.pending = s.pending \cup {<<id, n>>},
                 !.work = s.work \cup {<<id, n>>}]

\* the three early returns of processNext
Deferred(s) == PressureHigh(s) \/ AtCapacity(s) \/ s.queue = <<>>

\* what a processNext call saw (queue length, active count) and the job it started
Seen(s, id) == [called |-> TRUE, len |-> Len(s.queue),
                act |-> Cardinality(s.activeJobs), started |-> id]

processNext_idle(s) == [s EXCEPT !.disp = Seen(s, NoId)]

processNext_nogate(s) ==
    IF s.queue = <<>> THEN [s EXCEPT !.disp = Seen(s, NoId)]
    ELSE [StartHead(s) EXCEPT !.disp = Seen(s, Head(s.queue))]

processNext(s) ==
    IF Deferred(s) THEN [s EXCEPT !.disp = Seen(s, NoId)]
    ELSE [StartHead(s) EXCEPT !.disp = Seen(s, Head(s.queue))]

\* ---- enqueue --------------------------------------------------------------
QueueFull_offbyone(q) == Len(q) > jobQueueDepthLimit

\* queue.length >= renderingConfig.jobQueueDepthLimit
QueueFull(q) == Len(q) >= jobQueueDepthLimit

insertIndex_orequal(q, js, p) == FirstIndex({i \in 1..Len(q) : js[q[i]].priority <= p})

\* findIndex(j => j.request.priority < request.priority)
insertIndex(q, js, p) == FirstIndex({i \in 1..Len(q) : js[q[i]].priority < p})

Insert_append(q, js, id, p) == Append(q, id)

\* push when findIndex gave -1, splice(insertIndex, 0, job) otherwise
Insert(q, js, id, p) ==
    IF insertIndex(q, js, p) = 0 THEN Append(q, id)
    ELSE SpliceIn(q, insertIndex(q, js, p), id)

rejectEnqueue_dispatch(s) == processNext(s)

\* the QUEUE_FULL return: the queue is left as it was
rejectEnqueue(s) == s

\* a rejected request leaves no trace, so its id stands for the next one too
enqueue(p) ==
    /\ nextId <= workload.jobs \/ QueueFull(queue)
    /\ p <= workload.prios
    /\ UNCHANGED <<cancelled, failCount>>
    /\ IF QueueFull(queue)
       THEN /\ ret' = [op |-> "enqueue", id |-> nextId, value |-> FALSE]
            /\ Become(rejectEnqueue(Cur))
            /\ UNCHANGED nextId
       ELSE LET job == [priority |-> p, status |-> "queued", attempts |-> 0,
                        started |-> FALSE]
                s == [Cur EXCEPT !.jobs = MapSet(jobs, nextId, job),
                                 !.queue = Insert(queue, jobs, nextId, p)]
            IN /\ Become(processNext(s))
               /\ ret' = [op |-> "enqueue", id |-> nextId, value |-> TRUE]
               /\ nextId' = nextId + 1

\* enqueue called by a caller of the queue with the jobId of an earlier request
\* that has a result and of which no attempt is left running: the same checks,
\* a new job object under the old id.  The new object's attempts start at 0, so
\* the run's resubmissions are made before its failing attempt.
resubmit(id, p) ==
    /\ \A i \in Ids : failCount[i] = 0
    /\ id \in DOMAIN completedJobs
    /\ id \notin activeJobs
    /\ ~InQueue(queue, id)
    /\ \A w \in work \cup pending : w[1] # id
    /\ p <= workload.prios
    /\ UNCHANGED <<cancelled, failCount, nextId>>
    /\ IF QueueFull(queue)
       THEN /\ ret' = [op |-> "enqueue", id |-> id, value |-> FALSE]
            /\ Become(rejectEnqueue(Cur))
       ELSE LET job == [priority |-> p, status |-> "queued", attempts |-> 0,
                        started |-> FALSE]
                s == [Cur EXCEPT !.jobs = MapSet(jobs, id, job),
                                 !.queue = Insert(queue, jobs, id, p)]
            IN /\ Become(processNext(s))
               /\ ret' = [op |-> "enqueue", id |-> id, value |-> TRUE]

\* ---- handleJobComplete ------------------------------------------------------
handleJobComplete_keepactive(s, id) ==
    processNext([s EXCEPT !.jobs[id].status = "completed",
                          !.completedJobs = MapSet(s.completedJobs, id,
                               [status |-> "completed", code |-> "none"])])

handleJobComplete(s, id) ==
    processNext([s EXCEPT !.jobs[id].status = "completed",
                          !.activeJobs = s.activeJobs \ {id},
                          !.completedJobs = MapSet(s.completedJobs, id,
                               [status |-> "completed", code |-> "none"])])

\* ---- handleJobError ---------------------------------------------------------
shouldRetry_never(j) == FALSE
shouldRetry_offbyone(j) == j.attempts <= maxRetries

\* job.attempts < renderingConfig.maxRetries
shouldRetry(j) == j.attempts < maxRetries

handleJobError_requeueback(s, id, code) ==
    IF shouldRetry(s.jobs[id])
    THEN [s EXCEPT !.jobs[id].status = "queued",
                   !.jobs[id].started = FALSE,
                   !.activeJobs = s.activeJobs \ {id},
                   !.queue = Append(s.queue, id),
                   !.retryTimers = Append(s.retryTimers, id)]
    ELSE processNext([s EXCEPT !.jobs[id].status = "failed",
                               !.activeJobs = s.activeJobs \ {id},
                               !.completedJobs = MapSet(s.completedJobs, id,
                                    [status |-> "failed", code |-> code])])

handleJobError(s, id, code) ==
    IF shouldRetry(s.jobs[id])
    THEN [s EXCEPT !.jobs[id].status = "queued",
                   !.jobs[id].started = FALSE,
                   !.activeJobs = s.activeJobs \ {id},
                   !.queue = <<id>> \o s.queue,
                   !.retryTimers = Append(s.retryTimers, id)]
    ELSE processNext([s EXCEPT !.jobs[id].status = "failed",
                               !.activeJobs = s.activeJobs \ {id},
                               !.completedJobs = MapSet(s.completedJobs, id,
                                    [status |-> "failed", code |-> code])])

\* the attempts that have failed so far: every start of a job that is neither
\* running nor the one that completed it
Failed(id) ==
    jobs[id].attempts - (IF id \in activeJobs THEN 1 ELSE 0)
                      - (IF jobs[id].status = "completed" THEN 1 ELSE 0)

RECURSIVE SumFailed(_)
SumFailed(S) ==
    IF S = {} THEN 0
    ELSE LET x == CHOOSE y \in S : TRUE IN Failed(x) + SumFailed(S \ {x})

Failures == SumFailed(DOMAIN jobs)

\* ---- the deadline race of executeWithTimeout ---------------------------------
IsSettled_never(w) == FALSE

\* a promise settles once: resolve and reject on a settled promise do nothing
IsSettled(w) == w \notin pending

\* simulateRender resolves first: clearTimeout, resolve(result), handleJobComplete
RenderResolves(w) ==
    /\ w \in work
    /\ ~IsSettled(w)
    /\ Become(handleJobComplete([Cur EXCEPT !.work = work \ {w},
                                            !.pending = pending \ {w}], w[1]))
    /\ ret' = NoRet
    /\ UNCHANGED <<nextId, cancelled, failCount>>

\* the renderer rejects first: clearTimeout, reject(error), handleJobError
RenderRejects(w) ==
    /\ w \in work
    /\ ~IsSettled(w)
    /\ Failures < workload.failures
    /\ Become(handleJobError([Cur EXCEPT !.work = work \ {w},
                                         !.pending = pending \ {w}],
                             w[1], "RENDER_FAILED"))
    /\ ret' = NoRet
    /\ UNCHANGED <<nextId, cancelled>>
    /\ failCount' = [failCount EXCEPT ![w[1]] = @ + 1]

\* the deadline timer fires first: reject(RENDER_TIMEOUT), handleJobError;
\* nothing stops simulateRender, which keeps running
DeadlineFires(w) ==
    /\ w \in pending
    /\ Failures < workload.failures
    /\ Cardinality(work \ pending) < workload.stale
    /\ Become(handleJobError([Cur EXCEPT !.pending = pending \ {w}],
                             w[1], "RENDER_TIMEOUT"))
    /\ ret' = NoRet
    /\ UNCHANGED <<nextId, cancelled>>
    /\ failCount' = [failCount EXCEPT ![w[1]] = @ + 1]

\* simulateRender of an attempt that already timed out finishes: clearTimeout
\* and resolve / reject on the settled promise are no-ops
LateRenderSettles(w) ==
    /\ w \in work
    /\ IsSettled(w)
    /\ Become([Cur EXCEPT !.work = work \ {w}])
    /\ ret' = NoRet
    /\ UNCHANGED <<nextId, cancelled, failCount>>

\* ---- the retry timer of handleJobError ---------------------------------------
\* the timers share one delay (retryBackoffMs), so they fire in the order armed
RetryTimerFires ==
    /\ retryTimers # <<>>
    /\ Become(processNext([Cur EXCEPT !.retryTimers = Tail(retryTimers)]))
    /\ ret' = NoRet
    /\ UNCHANGED <<nextId, cancelled, failCount>>

\* ---- cancelJob ---------------------------------------------------------------
\* findIndex(j => j.request.jobId === jobId)
queueIndex(q, id) == FirstIndex({i \in 1..Len(q) : q[i] = id})

cancelJobResult_always(q, act, id) == TRUE
cancelJobResult_active(q, act, id) == queueIndex(q, id) # 0 \/ id \in act

\* the value cancelJob returns: true only for a job found in the queue
cancelJobResult(q, act, id) ==
    IF queueIndex(q, id) # 0 THEN TRUE
    ELSE IF id \in act THEN FALSE
    ELSE FALSE

cancelJob(id) ==
    /\ ret' = [op |-> "cancelJob", id |-> id,
               value |-> cancelJobResult(queue, activeJobs, id)]
    /\ IF queueIndex(queue, id) # 0
       THEN /\ Become([Cur EXCEPT !.queue = SpliceOut(queue, queueIndex(queue, id))])
            /\ cancelled' = cancelled \cup {id}
       ELSE /\ Become(Cur)
            /\ UNCHANGED cancelled
    /\ UNCHANGED <<nextId, failCount>>

\* ---- getJobStatus and PsdRenderer.getStatus ----------------------------------
\* what getJobStatus finds: the active job, else the recorded result, else the
\* waiting job, else null.  A job object carries `request`; of the results only
\* the one simulateRender builds carries `outputUrl`
getJobStatus_queuefirst(id) ==
    IF id \in activeJobs
      THEN [kind |-> "job", status |-> jobs[id].status, outputUrl |-> FALSE]
    ELSE IF InQueue(queue, id)
      THEN [kind |-> "job", status |-> jobs[id].status, outputUrl |-> FALSE]
    ELSE IF id \in DOMAIN completedJobs
      THEN [kind |-> "result", status |-> completedJobs[id].status,
            outputUrl |-> completedJobs[id].status = "completed"]
    ELSE [kind |-> "null", status |-> "none", outputUrl |-> FALSE]

getJobStatus(id) ==
    IF id \in activeJobs
      THEN [kind |-> "job", status |-> jobs[id].status, outputUrl |-> FALSE]
    ELSE IF id \in DOMAIN completedJobs
      THEN [kind |-> "result", status |-> completedJobs[id].status,
            outputUrl |-> completedJobs[id].status = "completed"]
    ELSE IF InQueue(queue, id)
      THEN [kind |-> "job", status |-> jobs[id].status, outputUrl |-> FALSE]
    ELSE [kind |-> "null", status |-> "none", outputUrl |-> FALSE]

\* what getStatus gives back: null, a result with the job's id and status, or
\* the TypeError of reading status.request.jobId when status has no `request`
getStatusResult(id) ==
    LET status == getJobStatus(id) IN
    IF status.kind = "null"
      THEN [raised |-> FALSE, jobId |-> NoId, status |-> "null"]
    ELSE IF status.outputUrl
      THEN [raised |-> FALSE, jobId |-> id, status |-> status.status]
    ELSE IF status.kind = "job"
      THEN [raised |-> FALSE, jobId |-> id, status |-> status.status]
    ELSE [raised |-> TRUE, jobId |-> NoId, status |-> "TypeError"]

getStatus(id) ==
    /\ ret' = [op |-> "getStatus", id |-> id, value |-> getStatusResult(id)]
    /\ Become(Cur)
    /\ UNCHANGED <<nextId, cancelled, failCount>>

\* ---- getMetrics ----------------------------------------------------------------
getMetricsResult_perjob(s) ==
    [queueDepth |-> Len(s.queue), activeJobs |-> Cardinality(s.activeJobs),
     maxConcurrent |-> maxConcurrentJobs,
     utilizationPercent |-> [num |-> 100 * Cardinality(s.activeJobs), den |-> 1]]

\* the object getMetrics returns; utilizationPercent, (activeJobs.size /
\* maxConcurrentJobs) * 100, is kept as the fraction num / den
getMetricsResult(s) ==
    [queueDepth |-> Len(s.queue), activeJobs |-> Cardinality(s.activeJobs),
     maxConcurrent |-> maxConcurrentJobs,
     utilizationPercent |-> [num |-> 100 * Cardinality(s.activeJobs),
                             den |-> maxConcurrentJobs]]

getMetrics ==
    /\ ret' = [op |-> "getMetrics", id |-> NoId, value |-> getMetricsResult(Cur)]
    /\ Become(Cur)
    /\ UNCHANGED <<nextId, cancelled, failCount>>

\* ---- the timeout of an attempt ----------------------------------------------
baseTimeouts == [render |-> renderTimeoutMs, export |-> exportTimeoutMs,
                 sync |-> syncTimeoutMs]

getTimeoutForFileSize_nocap(sz, op) == (baseTimeouts[op] * (100 + sz)) \div 100

\* Math.min(baseTimeout * (1 + fileSizeMB / 100), baseTimeout * 3); the base
\* timeouts are multiples of 100, so the product is a whole number of ms
getTimeoutForFileSize(sz, op) ==
    Min((baseTimeouts[op] * (100 + sz)) \div 100, baseTimeouts[op] * 3)

\* getConfigForTier(tier).renderTimeoutMs
tierRenderTimeoutMs(tier) == renderTimeoutMs * TIER_TIMEOUT_MULTIPLIERS[tier]

\* tierConfig.renderTimeoutMs || renderingConfig.renderTimeoutMs
tierTimeout(tier) ==
    IF tierRenderTimeoutMs(tier) # 0 THEN tierRenderTimeoutMs(tier) ELSE renderTimeoutMs

\* getTimeoutForFileSize(job.request.file.sizeMB, 'render')
dynamicTimeout(sz) == getTimeoutForFileSize(sz, "render")

timeoutMs_min(sz, tier) == Min(tierTimeout(tier), dynamicTimeout(sz))

\* Math.max(tierTimeout, dynamicTimeout)
timeoutMs(sz, tier) == Max(tierTimeout(tier), dynamicTimeout(sz))

\* ---- PsdRenderer.calculatePriority ---------------------------------------------
tierPriority == [enterprise |-> 80, pro |-> 50, free |-> 20]

calculatePriority_bigbonus(tier, sz) ==
    Min(25 * 100, 25 * tierPriority[tier] + Max(0, 25 * 40 - sz))

\* Math.min(100, basePriority + Math.max(0, 20 - fileSizeMB / 25)), times 25 so
\* that the value is a whole number for a whole number of MB
calculatePriority(tier, sz) ==
    Min(25 * 100, 25 * tierPriority[tier] + Max(0, 25 * 20 - sz))

\* ---- isFileSizeAllowed ----------------------------------------------------------
isFileSizeAllowed_strict(sz, tier) ==
    IF tier # NoTier THEN sz < TIER_FILE_SIZE_LIMITS[tier] ELSE sz < maxFileSizeMB

\* if (tier) return fileSizeMB <= TIER_FILE_SIZE_LIMITS[tier];
\* return fileSizeMB <= renderingConfig.maxFileSizeMB
isFileSizeAllowed(sz, tier) ==
    IF tier # NoTier THEN sz <= TIER_FILE_SIZE_LIMITS[tier] ELSE sz <= maxFileSizeMB

\* the timeouts, the priority and the size checks are computed for a file of sz MB
Compute(sz) ==
    /\ fileSizeMB' = sz
    /\ armedTimeout' = timeoutMs(sz, userTier)
    /\ sizeTimeout' = getTimeoutForFileSize(sz, operation)
    /\ jobPriority' = calculatePriority(userTier, sz)
    /\ sizeAllowed' = [tier |-> isFileSizeAllowed(sz, userTier),
                       base |-> isFileSizeAllowed(sz, NoTier)]
    /\ UNCHANGED <<userTier, operation>>
    /\ UNCHANGED queueVars
    /\ UNCHANGED syncVars
    /\ UNCHANGED exportVars
    /\ UNCHANGED batch

\* the same job with a file one MB larger
GrowFile ==
    /\ fileSizeMB < MaxSizeMB
    /\ Compute(fileSizeMB + 1)

\* the same job with a file twice the size
DoubleFile ==
    /\ fileSizeMB >= 1
    /\ 2 * fileSizeMB <= MaxSizeMB
    /\ Compute(2 * fileSizeMB)

\* ---- PsdRenderer.submitRender ---------------------------------------------------
\* the file sizes of the render requests, in MB
SubmitSizes == {40, 60, 150}

\* validateFile(file): the size against the base limit, then the format; the
\* error code, "none" when the file is valid
validateFile(sz, supported) ==
    IF ~isFileSizeAllowed(sz, NoTier) THEN "FILE_TOO_LARGE"
    ELSE IF ~supported THEN "UNSUPPORTED_FORMAT"
    ELSE "none"

tierMaxFileSizeMB_base(tier) == maxFileSizeMB

\* getConfigForTier(userTier).maxFileSizeMB || renderingConfig.maxFileSizeMB
tierMaxFileSizeMB(tier) ==
    IF TIER_FILE_SIZE_LIMITS[tier] # 0 THEN TIER_FILE_SIZE_LIMITS[tier]
    ELSE maxFileSizeMB

\* what submitRender returns, with the request it was called with
submitReturn(tier, sz, supported, queued, code) ==
    [op |-> "submitRender", id |-> nextId, value |-> queued, code |-> code,
     tier |-> tier, size |-> sz, supported |-> supported]

\* validateFile, the tier limit, calculatePriority, renderJobQueue.enqueue
submitRender(tier, sz, supported) ==
    /\ UNCHANGED <<cancelled, failCount>>
    /\ IF validateFile(sz, supported) # "none"
       THEN /\ ret' = submitReturn(tier, sz, supported, FALSE,
                                   validateFile(sz, supported))
            /\ Become(Cur)
            /\ UNCHANGED nextId
       ELSE IF sz > tierMaxFileSizeMB(tier)
       THEN /\ ret' = submitReturn(tier, sz, supported, FALSE, "FILE_TOO_LARGE")
            /\ Become(Cur)
            /\ UNCHANGED nextId
       ELSE IF QueueFull(queue)
       THEN /\ ret' = submitReturn(tier, sz, supported, FALSE, "QUEUE_FULL")
            /\ Become(rejectEnqueue(Cur))
            /\ UNCHANGED nextId
       ELSE LET p == calculatePriority(tier, sz)
                job == [priority |-> p, status |-> "queued", attempts |-> 0,
                        started |-> FALSE]
                s == [Cur EXCEPT !.jobs = MapSet(jobs, nextId, job),
                                 !.queue = Insert(queue, jobs, nextId, p)]
            IN /\ nextId <= workload.jobs
               /\ Become(processNext(s))
               /\ ret' = submitReturn(tier, sz, supported, TRUE, "none")
               /\ nextId' = nextId + 1

\* ---- SyncManager ---------------------------------------------------------------
Files == 1..MaxFiles
Directions == {"upload", "download"}
\* the file sizes of the sync requests, in MB
SyncSizes == {60, 150, 250, 400, 500, 550}

\* Depth workload: enough requests to fill every slot and the waiting queue and
\* to make one more; the caller cancels nothing and no sync outlasts its timeout
DepthSyncs == maxConcurrentJobs + jobQueueDepthLimit + 1

SyncWorkloads ==
    { [syncs |-> TierSyncs, tiers |-> Tiers, directions |-> Directions,
       sizes |-> SyncSizes, cancels |-> TRUE, timeouts |-> TRUE],
      [syncs |-> MaxSyncs, tiers |-> {"pro"}, directions |-> {"upload"},
       sizes |-> {60}, cancels |-> TRUE, timeouts |-> TRUE],
      [syncs |-> DepthSyncs, tiers |-> {"pro"}, directions |-> {"upload"},
       sizes |-> {60}, cancels |-> FALSE, timeouts |-> FALSE] }

\* no sync request is made in this run
NoSyncs == [syncs |-> 0, tiers |-> {}, directions |-> {}, sizes |-> {},
            cancels |-> FALSE, timeouts |-> FALSE]

\* Map.delete(k)
MapDel(f, k) == [x \in (DOMAIN f) \ {k} |-> f[x]]

syncTierPriority == [enterprise |-> 70, pro |-> 50, free |-> 30]

\* SyncManager.calculatePriority
syncCalculatePriority(tier, direction) ==
    syncTierPriority[tier] + (IF direction = "download" THEN 10 ELSE 0)

NoSyncRet == [op |-> "none", file |-> 0, tier |-> NoTier, size |-> 0,
              value |-> FALSE, code |-> "none"]

\* the sync manager's state as one record, threaded through its handlers
SyncCur == [queue |-> syncQueue, active |-> activeSyncs, versions |-> fileVersions,
            pending |-> syncPending, work |-> syncWork, aborted |-> syncAborted,
            ended |-> lastEnded]

SyncBecome(s) ==
    /\ syncQueue' = s.queue
    /\ activeSyncs' = s.active
    /\ fileVersions' = s.versions
    /\ syncPending' = s.pending
    /\ syncWork' = s.work
    /\ syncAborted' = s.aborted
    /\ lastEnded' = s.ended
    /\ UNCHANGED syncWorkload
    /\ UNCHANGED queueVars
    /\ UNCHANGED calcVars
    /\ UNCHANGED exportVars
    /\ UNCHANGED batch

\* activeSyncs.size >= maxConcurrentJobs: return; shift; activeSyncs.set;
\* fileVersions.set(status 'syncing'); performSync arms the timeout and starts
\* simulateSync
processNextSync(s) ==
    IF Cardinality(DOMAIN s.active) >= maxConcurrentJobs \/ s.queue = <<>> THEN s
    ELSE LET item == Head(s.queue)
         IN [s EXCEPT !.queue = Tail(s.queue),
                      !.active = MapSet(s.active, item.file, item.rid),
                      !.versions[item.file] = "syncing",
                      !.pending = s.pending \cup {item},
                      !.work = s.work \cup {item}]

handleSyncComplete_nodispatch(s, item) ==
    [s EXCEPT !.active = MapDel(s.active, item.file),
              !.versions[item.file] = "synced",
              !.ended[item.file] = "completed"]

handleSyncComplete(s, item) ==
    processNextSync([s EXCEPT !.active = MapDel(s.active, item.file),
                              !.versions[item.file] = "synced",
                              !.ended[item.file] = "completed"])

\* how: the sync failed, timed out or was aborted; the status is 'error' for all
handleSyncError(s, item, how) ==
    processNextSync([s EXCEPT !.active = MapDel(s.active, item.file),
                              !.versions[item.file] = "error",
                              !.ended[item.file] = how])

\* syncQueue.push(item); syncQueue.sort((a, b) => b.priority - a.priority):
\* the sort is stable, so the item goes behind those of equal priority
SortedPush(q, item) ==
    LET k == FirstIndex({i \in 1..Len(q) : q[i].priority < item.priority})
    IN IF k = 0 THEN Append(q, item) ELSE SpliceIn(q, k, item)

\* validateFile(file) and isFileSizeAllowed(file.sizeMB), both called without a
\* tier; the file's format is a supported one
SyncSizeAccepted(sz, tier) == isFileSizeAllowed(sz, NoTier)

queueSync(f, tier, direction, sz) ==
    /\ syncNext <= syncWorkload.syncs \/ ~SyncSizeAccepted(sz, tier)
    /\ tier \in syncWorkload.tiers
    /\ direction \in syncWorkload.directions
    /\ sz \in syncWorkload.sizes
    /\ IF ~SyncSizeAccepted(sz, tier)
       THEN /\ syncRet' = [op |-> "queueSync", file |-> f, tier |-> tier, size |-> sz,
                           value |-> FALSE, code |-> "FILE_TOO_LARGE"]
            /\ SyncBecome(SyncCur)
            /\ UNCHANGED syncNext
       ELSE LET item == [rid |-> syncNext, file |-> f,
                         priority |-> syncCalculatePriority(tier, direction)]
            IN /\ SyncBecome(processNextSync(
                       [SyncCur EXCEPT !.queue = SortedPush(syncQueue, item)]))
               /\ syncRet' = [op |-> "queueSync", file |-> f, tier |-> tier,
                              size |-> sz, value |-> TRUE, code |-> "none"]
               /\ syncNext' = syncNext + 1

\* simulateSync resolves first: clearTimeout, resolve, handleSyncComplete
SyncResolves(item) ==
    /\ syncAborted = {}
    /\ item \in syncWork
    /\ item \in syncPending
    /\ SyncBecome(handleSyncComplete([SyncCur EXCEPT !.work = syncWork \ {item},
                                                     !.pending = syncPending \ {item}],
                                     item))
    /\ syncRet' = NoSyncRet
    /\ UNCHANGED syncNext

\* the timeout fires first: reject(SYNC_TIMEOUT), handleSyncError; simulateSync
\* is not aborted and keeps running
SyncTimeoutFires(item) ==
    /\ syncWorkload.timeouts
    /\ syncAborted = {}
    /\ item \in syncPending
    /\ SyncBecome(handleSyncError([SyncCur EXCEPT !.pending = syncPending \ {item}],
                                  item, "timeout"))
    /\ syncRet' = NoSyncRet
    /\ UNCHANGED syncNext

\* simulateSync of a sync that timed out finishes: resolve on the settled
\* promise does nothing
LateSyncSettles(item) ==
    /\ syncAborted = {}
    /\ item \in syncWork
    /\ item \notin syncPending
    /\ SyncBecome([SyncCur EXCEPT !.work = syncWork \ {item}])
    /\ syncRet' = NoSyncRet
    /\ UNCHANGED syncNext

\* findIndex(i => i.file.id === fileId)
syncQueueIndex(q, f) == FirstIndex({i \in 1..Len(q) : q[i].file = f})

\* the items whose AbortController activeSyncs holds for file f
Controlled(s, f) == {it \in s.work : it.file = f /\ it.rid = s.active[f]}

\* cancelSync: a waiting sync of the file is spliced out; else the stored
\* controller is aborted (the abort listener clears simulateSync's timer and
\* rejects) and the activeSyncs entry deleted
cancelSync(f) ==
    /\ syncWorkload.cancels
    /\ IF syncQueueIndex(syncQueue, f) # 0
       THEN /\ SyncBecome([SyncCur EXCEPT
                    !.queue = SpliceOut(syncQueue, syncQueueIndex(syncQueue, f)),
                    !.ended[f] = "cancelled"])
            /\ syncRet' = [NoSyncRet EXCEPT !.op = "cancelSync", !.file = f,
                                            !.value = TRUE]
       ELSE IF f \in DOMAIN activeSyncs
       THEN /\ SyncBecome([SyncCur EXCEPT
                    !.work = syncWork \ Controlled(SyncCur, f),
                    !.aborted = syncAborted \cup Controlled(SyncCur, f),
                    !.active = MapDel(activeSyncs, f),
                    !.ended[f] = "cancelled"])
            /\ syncRet' = [NoSyncRet EXCEPT !.op = "cancelSync", !.file = f,
                                            !.value = TRUE]
       ELSE /\ SyncBecome(SyncCur)
            /\ syncRet' = [NoSyncRet EXCEPT !.op = "cancelSync", !.file = f]
    /\ UNCHANGED syncNext

\* the rejection of an aborted simulateSync reaches performSync's catch:
\* clearTimeout, reject, handleSyncError
SyncAbortDelivered(item) ==
    /\ item \in syncAborted
    /\ IF item \in syncPending
       THEN SyncBecome(handleSyncError(
                [SyncCur EXCEPT !.aborted = syncAborted \ {item},
                                !.pending = syncPending \ {item}],
                item, "cancelled"))
       ELSE SyncBecome([SyncCur EXCEPT !.aborted = syncAborted \ {item}])
    /\ syncRet' = NoSyncRet
    /\ UNCHANGED syncNext

\* fileVersions.get(fileId) || null, as the status it carries
getFileStatus(f) == IF fileVersions[f] = "none" THEN "null" ELSE fileVersions[f]

SyncIdle ==
    /\ syncQueue = <<>>
    /\ activeSyncs = <<>>
    /\ fileVersions = [f \in Files |-> "none"]
    /\ syncPending = {}
    /\ syncWork = {}
    /\ syncAborted = {}
    /\ syncNext = 1
    /\ syncRet = NoSyncRet
    /\ lastEnded = [f \in Files |-> "none"]

SyncNext ==
    \/ \E f \in Files, tier \in Tiers, d \in Directions, sz \in SyncSizes :
          queueSync(f, tier, d, sz)
    \/ \E item \in syncWork : SyncResolves(item)
    \/ \E item \in syncPending : SyncTimeoutFires(item)
    \/ \E item \in syncWork : LateSyncSettles(item)
    \/ \E f \in Files : cancelSync(f)
    \/ \E item \in syncAborted : SyncAbortDelivered(item)

(***************************************************************************)
(* Exporter (src/services/export/exporter.ts).  An exportFile call runs    *)
(* synchronously up to its await; the caller chooses the job id, so two    *)
(* calls may carry the same one.  As for the render queue and the sync      *)
(* manager, simulateExport stands for the export proper, whose duration    *)
(* the environment decides: either its timer or the timeout fires first.   *)
(***************************************************************************)
ExportJobs == 1..MaxExportJobs

ExportSizes == {60, 150}

NoCall == 0

NoExportRet == [op |-> "none", job |-> 0, value |-> FALSE, inFlight |-> FALSE]

\* an exportFile call for job j is awaiting its export and has not been aborted
ExportInFlight(j) ==
    \E c \in 1..Len(exportCalls) :
        exportCalls[c].job = j /\ exportCalls[c].phase = "running"

\* a rejection of simulateExport is on its way to exportFile's catch
AbortUnderWay == \E c \in 1..Len(exportCalls) : exportCalls[c].phase = "aborted"

exportFinally_keep(j) == activeExports

\* finally { this.activeExports.delete(jobId) }
exportFinally(j) == [activeExports EXCEPT ![j] = NoCall]

\* validateFile / isFileSizeAllowed(sourceFile.sizeMB): return status 'failed';
\* activeExports.set(jobId, ...); await performExportWithTimeout(...)
exportFile(j, sz) ==
    /\ Len(exportCalls) < MaxExports
    /\ IF ~isFileSizeAllowed(sz, NoTier)
       THEN /\ exportCalls' = Append(exportCalls,
                   [job |-> j, size |-> sz, phase |-> "returned", work |-> FALSE,
                    status |-> "failed", code |-> "FILE_TOO_LARGE"])
            /\ UNCHANGED activeExports
       ELSE /\ exportCalls' = Append(exportCalls,
                   [job |-> j, size |-> sz, phase |-> "running", work |-> TRUE,
                    status |-> "none", code |-> "none"])
            /\ activeExports' = [activeExports EXCEPT ![j] = Len(exportCalls) + 1]
    /\ exportRet' = NoExportRet
    /\ UNCHANGED exportCancelled
    /\ UNCHANGED <<queueVars, calcVars, syncVars, batch>>

\* simulateExport's timer fires: resolve, clearTimeout(timeoutId), exportFile returns
\* status 'completed', finally
ExportResolves(c) ==
    /\ exportCalls[c].phase = "running"
    /\ ~AbortUnderWay
    /\ exportCalls' = [exportCalls EXCEPT ![c].phase = "returned",
                                          ![c].work = FALSE,
                                          ![c].status = "completed"]
    /\ activeExports' = exportFinally(exportCalls[c].job)
    /\ exportRet' = NoExportRet
    /\ UNCHANGED exportCancelled
    /\ UNCHANGED <<queueVars, calcVars, syncVars, batch>>

\* the timeout fires first: reject({code: EXPORT_TIMEOUT}), exportFile returns
\* status 'timeout', finally; simulateExport is not aborted and keeps running
ExportTimeoutFires(c) ==
    /\ exportCalls[c].phase = "running"
    /\ ~AbortUnderWay
    /\ exportCalls' = [exportCalls EXCEPT ![c].phase = "returned",
                                          ![c].status = "timeout",
                                          ![c].code = "EXPORT_TIMEOUT"]
    /\ activeExports' = exportFinally(exportCalls[c].job)
    /\ exportRet' = NoExportRet
    /\ UNCHANGED exportCancelled
    /\ UNCHANGED <<queueVars, calcVars, syncVars, batch>>

\* simulateExport of an export that timed out finishes: clearTimeout and resolve
\* on the settled promise do nothing
LateExportSettles(c) ==
    /\ exportCalls[c].phase = "returned"
    /\ exportCalls[c].work
    /\ ~AbortUnderWay
    /\ exportCalls' = [exportCalls EXCEPT ![c].work = FALSE]
    /\ exportRet' = NoExportRet
    /\ UNCHANGED <<activeExports, exportCancelled>>
    /\ UNCHANGED <<queueVars, calcVars, syncVars, batch>>

\* activeExports.get(jobId): abortController.abort() (the listener clears the
\* processing timer and rejects), activeExports.delete(jobId), return true; else false
cancelExport(j) ==
    /\ IF activeExports[j] # NoCall
       THEN /\ exportCalls' = [exportCalls EXCEPT
                   ![activeExports[j]].phase = IF @ = "running" THEN "aborted" ELSE @,
                   ![activeExports[j]].work = FALSE]
            /\ activeExports' = [activeExports EXCEPT ![j] = NoCall]
            /\ exportCancelled' = exportCancelled \cup {activeExports[j]}
       ELSE UNCHANGED <<exportCalls, activeExports, exportCancelled>>
    /\ exportRet' = [op |-> "cancelExport", job |-> j,
                     value |-> activeExports[j] # NoCall,
                     inFlight |-> ExportInFlight(j)]
    /\ UNCHANGED <<queueVars, calcVars, syncVars, batch>>

\* reject(new Error('Export cancelled')) reaches exportFile's catch: error.code is
\* not EXPORT_TIMEOUT, so status 'failed' with EXPORT_FAILED; finally
ExportAbortDelivered(c) ==
    /\ exportCalls[c].phase = "aborted"
    /\ exportCalls' = [exportCalls EXCEPT ![c].phase = "returned",
                                          ![c].status = "failed",
                                          ![c].code = "EXPORT_FAILED"]
    /\ activeExports' = exportFinally(exportCalls[c].job)
    /\ exportRet' = NoExportRet
    /\ UNCHANGED exportCancelled
    /\ UNCHANGED <<queueVars, calcVars, syncVars, batch>>

ExportIdle ==
    /\ activeExports = [j \in ExportJobs |-> NoCall]
    /\ exportCalls = <<>>
    /\ exportCancelled = {}
    /\ exportRet = NoExportRet

\* ---- batchExport -------------------------------------------------------------
\* The formats of a batch are named by their place in request.exports.  The
\* exportFile call batchExport awaits returns one result, of status completed,
\* failed or timeout.
ExportStatuses == {"completed", "failed", "timeout"}

NoBatch(flag) ==
    [enableBatchOptimization |-> flag, formats |-> 0, results |-> <<>>,
     awaiting |-> 0, returned |-> FALSE]

\* const results = []; for (const exportConfig of exports) { ... await
\* this.exportFile(exportRequest): the first format's call is made; with no
\* format the loop is skipped and the empty results are returned
batchExport(n) ==
    /\ batch.awaiting = 0
    /\ ~batch.returned
    /\ batch' = [batch EXCEPT !.formats = n,
                              !.awaiting = IF n > 0 THEN 1 ELSE 0,
                              !.returned = (n = 0)]
    /\ UNCHANGED <<queueVars, calcVars, syncVars, exportVars>>

\* the awaited exportFile returns: results.push(result); break if batch
\* optimization is disabled and result.status === 'failed'; else the next
\* format's call, or the end of the loop and return results
BatchCallReturns(status) ==
    /\ batch.awaiting > 0
    /\ LET stop == ~batch.enableBatchOptimization /\ status = "failed"
           last == batch.awaiting = batch.formats
       IN batch' = [batch EXCEPT
               !.results = Append(@, [format |-> batch.awaiting, status |-> status]),
               !.awaiting = IF stop \/ last THEN 0 ELSE @ + 1,
               !.returned = stop \/ last]
    /\ UNCHANGED <<queueVars, calcVars, syncVars, exportVars>>

BatchNext ==
    \/ \E n \in 0..MaxFormats : batchExport(n)
    \/ \E status \in ExportStatuses : BatchCallReturns(status)

ExportNext ==
    \/ \E j \in ExportJobs, sz \in ExportSizes : exportFile(j, sz)
    \/ \E c \in 1..Len(exportCalls) : ExportResolves(c)
    \/ \E j \in ExportJobs : cancelExport(j)
    \/ \E c \in 1..Len(exportCalls) : ExportAbortDelivered(c)
    \/ \E c \in 1..Len(exportCalls) : ExportTimeoutFires(c)
    \/ \E c \in 1..Len(exportCalls) : LateExportSettles(c)

QueueInit ==
    /\ queue = <<>>
    /\ activeJobs = {}
    /\ completedJobs = <<>>
    /\ jobs = <<>>
    /\ pending = {}
    /\ work = {}
    /\ retryTimers = <<>>
    /\ nextId = 1
    /\ cancelled = {}
    /\ ret = NoRet
    /\ disp = NoDisp
    /\ failCount = [id \in Ids |-> 0]

CalcInit ==
    /\ fileSizeMB = 0
    /\ armedTimeout = timeoutMs(0, userTier)
    /\ sizeTimeout = getTimeoutForFileSize(0, operation)
    /\ jobPriority = calculatePriority(userTier, 0)
    /\ sizeAllowed = [tier |-> isFileSizeAllowed(0, userTier),
                      base |-> isFileSizeAllowed(0, NoTier)]

Init ==
    /\ QueueInit
    /\ workload \in Workloads
    /\ userTier = "free"
    /\ operation = "render"
    /\ CalcInit
    /\ SyncIdle
    /\ syncWorkload = NoSyncs
    /\ ExportIdle
    /\ batch = NoBatch(TRUE)

Next ==
    \/ \E p \in Priorities : enqueue(p)
    \/ \E w \in work : RenderResolves(w)
    \/ \E w \in pending : DeadlineFires(w)
    \/ \E w \in work : RenderRejects(w)
    \/ \E w \in work : LateRenderSettles(w)
    \/ RetryTimerFires
    \/ \E id \in Ids : cancelJob(id)
    \/ \E id \in Ids : getStatus(id)
    \/ getMetrics

Spec == Init /\ [][Next]_vars

\* The queue used directly, by a caller that submits job ids again: two
\* submissions of one priority, one failing attempt.
ResubmitWorkload ==
    [jobs |-> RetryJobs, prios |-> 1, failures |-> 1, stale |-> MaxStale]

ResubmitInit ==
    /\ QueueInit
    /\ workload = ResubmitWorkload
    /\ userTier = "free"
    /\ operation = "render"
    /\ CalcInit
    /\ SyncIdle
    /\ syncWorkload = NoSyncs
    /\ ExportIdle
    /\ batch = NoBatch(TRUE)

ResubmitNext ==
    \/ Next
    \/ \E id \in Ids, p \in Priorities : resubmit(id, p)

ResubmitSpec == ResubmitInit /\ [][ResubmitNext]_vars

\* The render queue behind PsdRenderer.submitRender: requests of every tier,
\* of the sizes in SubmitSizes, of a supported format or not.
SubmitInit ==
    /\ QueueInit
    /\ workload = [jobs |-> MaxJobs, prios |-> NumPriorities, failures |-> 1, stale |-> 1]
    /\ userTier = "free"
    /\ operation = "render"
    /\ CalcInit
    /\ SyncIdle
    /\ syncWorkload = NoSyncs
    /\ ExportIdle
    /\ batch = NoBatch(TRUE)

SubmitNext ==
    \/ \E tier \in Tiers, sz \in SubmitSizes, supported \in BOOLEAN :
          submitRender(tier, sz, supported)
    \/ \E w \in work : RenderResolves(w)
    \/ \E w \in pending : DeadlineFires(w)
    \/ \E w \in work : RenderRejects(w)
    \/ \E w \in work : LateRenderSettles(w)
    \/ RetryTimerFires

SubmitSpec == SubmitInit /\ [][SubmitNext]_vars

\* the timeout calculation alone, over every tier, operation and file size
TimeoutInit ==
    /\ QueueInit
    /\ workload = [jobs |-> MaxJobs, prios |-> NumPriorities, failures |-> 1, stale |-> 1]
    /\ userTier \in Tiers
    /\ operation \in Operations
    /\ CalcInit
    /\ SyncIdle
    /\ syncWorkload = NoSyncs
    /\ ExportIdle
    /\ batch = NoBatch(TRUE)

TimeoutNext ==
    \/ GrowFile
    \/ DoubleFile

TimeoutSpec == TimeoutInit /\ [][TimeoutNext]_vars

\* the sync manager alone
SyncInit ==
    /\ QueueInit
    /\ workload = [jobs |-> MaxJobs, prios |-> NumPriorities, failures |-> 1, stale |-> 1]
    /\ userTier = "free"
    /\ operation = "sync"
    /\ CalcInit
    /\ SyncIdle
    /\ syncWorkload \in SyncWorkloads
    /\ ExportIdle
    /\ batch = NoBatch(TRUE)

SyncSpec == SyncInit /\ [][SyncNext]_vars

\* The run whose progress is followed: the queue workload, MaxSyncs requests of
\* one tier, direction and size, with cancellations and timeouts.
LiveWorkload ==
    [syncs |-> MaxSyncs, tiers |-> {"pro"}, directions |-> {"upload"},
     sizes |-> {60}, cancels |-> TRUE, timeouts |-> TRUE]

\* the request numbers queueSync hands out in it
SyncRequests == 1..MaxSyncs

\* the sync of request r settles: its transfer resolves, or its timeout fires
SyncSettles(r) ==
    \E item \in syncPending :
        /\ item.rid = r
        /\ SyncResolves(item) \/ SyncTimeoutFires(item)

\* Timers fire and rejections are delivered: every running sync settles, every
\* abort reaches its handler.  Nothing obliges the caller to call queueSync or
\* cancelSync.
SyncFairness ==
    /\ \A r \in SyncRequests : WF_vars(SyncSettles(r))
    /\ WF_vars(\E item \in syncAborted : SyncAbortDelivered(item))

SyncLiveInit == SyncInit /\ syncWorkload = LiveWorkload

SyncLiveSpec == SyncLiveInit /\ [][SyncNext]_vars /\ SyncFairness

ExportInit ==
    /\ QueueInit
    /\ workload = [jobs |-> MaxJobs, prios |-> NumPriorities, failures |-> 1, stale |-> 1]
    /\ userTier = "free"
    /\ operation = "export"
    /\ CalcInit
    /\ SyncIdle
    /\ syncWorkload = NoSyncs
    /\ ExportIdle
    /\ batch = NoBatch(TRUE)

ExportSpec == ExportInit /\ [][ExportNext]_vars

\* renderingConfig.enableBatchOptimization is set before the run
BatchInit ==
    /\ QueueInit
    /\ workload = [jobs |-> MaxJobs, prios |-> NumPriorities, failures |-> 1, stale |-> 1]
    /\ userTier = "free"
    /\ operation = "export"
    /\ CalcInit
    /\ SyncIdle
    /\ syncWorkload = NoSyncs
    /\ ExportIdle
    /\ \E flag \in BOOLEAN : batch = NoBatch(flag)

BatchSpec == BatchInit /\ [][BatchNext]_vars

TypeOK ==
    /\ queue \in Seq(Ids)
    /\ activeJobs \subseteq Ids
    /\ DOMAIN completedJobs \subseteq Ids
    /\ DOMAIN jobs \subseteq Ids
    /\ pending \subseteq work
    /\ retryTimers \in Seq(Ids)
    /\ nextId \in 1..(workload.jobs + 1)
    /\ workload \in Workloads \cup {ResubmitWorkload}
    /\ failCount \in [Ids -> 0..maxRetries]
    /\ fileSizeMB \in 0..MaxSizeMB
    /\ userTier \in Tiers
    /\ operation \in Operations
    /\ armedTimeout \in Nat
    /\ sizeTimeout \in Nat
    /\ jobPriority \in Nat
    /\ sizeAllowed \in [tier : BOOLEAN, base : BOOLEAN]
    /\ \A i \in 1..Len(syncQueue) : syncQueue[i].file \in Files
    /\ DOMAIN activeSyncs \subseteq Files
    /\ \A f \in Files :
          fileVersions[f] \in {"none", "syncing", "synced", "error"}
    /\ syncPending \subseteq syncWork \cup syncAborted
    /\ syncNext \in 1..(Max(MaxSyncs, DepthSyncs) + 1)
    /\ syncWorkload \in SyncWorkloads \cup {NoSyncs}
    /\ activeExports \in [ExportJobs -> 0..MaxExports]
    /\ Len(exportCalls) <= MaxExports
    /\ \A c \in 1..Len(exportCalls) :
          /\ exportCalls[c].job \in ExportJobs
          /\ exportCalls[c].phase \in {"running", "aborted", "returned"}
          /\ exportCalls[c].status \in {"none", "completed", "failed", "timeout"}
          /\ exportCalls[c].work \in BOOLEAN
    /\ exportCancelled \subseteq 1..Len(exportCalls)
    /\ batch.enableBatchOptimization \in BOOLEAN
    /\ batch.formats \in 0..MaxFormats
    /\ batch.awaiting \in 0..batch.formats
    /\ Len(batch.results) <= batch.formats
    /\ batch.returned \in BOOLEAN

\* ---- notions shared by the properties -------------------------------------
Accepted == DOMAIN jobs
HasResult(id) == id \in DOMAIN completedJobs
Stale == work \ pending
Places(id) == (IF InQueue(queue, id) THEN 1 ELSE 0)
              + (IF id \in activeJobs THEN 1 ELSE 0)
              + (IF HasResult(id) THEN 1 ELSE 0)
Occurrences(q, id) == Cardinality({i \in 1..Len(q) : q[i] = id})
\* the queue with id taken out, the others in their order
Without(q, id) == SelectSeq(q, LAMBDA x : x # id)
\* the step is a cancelJob(id) call
CancelCall(id) == ret'.op = "cancelJob" /\ ret'.id = id
\* nothing but submissions has happened: no attempt has ended, nothing was
\* cancelled
OnlySubmissions ==
    /\ DOMAIN completedJobs = {}
    /\ cancelled = {}
    /\ \A id \in Ids : failCount[id] = 0
\* the step starts an attempt of id
StartsIn(id) == id \notin activeJobs /\ id \in activeJobs'
\* the step is the failure of an attempt of id
FailsIn(id) == id \in activeJobs /\ id \notin activeJobs' /\ jobs'[id].status # "completed"

\* C1: in every reachable state the number of jobs in the active set is at
\* most maxConcurrentJobs.
C1_ConcurrencyBound == Cardinality(activeJobs) <= maxConcurrentJobs

\* a job is running while the waiting queue is full
C1_Witness ==
    /\ Cardinality(activeJobs) >= 1
    /\ Len(queue) >= jobQueueDepthLimit

\* C2: the waiting queue is always sorted by non-increasing priority, and jobs
\* of equal priority appear in submission order (ids are handed out in
\* submission order).
C2_QueueSorted ==
    \A i, k \in 1..Len(queue) :
        i < k => \/ jobs[queue[i]].priority > jobs[queue[k]].priority
                 \/ /\ jobs[queue[i]].priority = jobs[queue[k]].priority
                    /\ queue[i] < queue[k]

\* C3: a job is re-queued after each failure while attempts < maxRetries and
\* is finalized as 'failed' by the failure of its maxRetries-th attempt; its
\* attempts counter then equals maxRetries, never exceeds it, and the job is
\* neither waiting nor active again.
C3_RetryBound ==
    /\ [](\A id \in Accepted :
            /\ jobs[id].attempts <= maxRetries
            /\ (HasResult(id) /\ completedJobs[id].status = "failed")
                 => /\ jobs[id].attempts = maxRetries
                    /\ id \notin activeJobs
                    /\ ~InQueue(queue, id))
    /\ [][\A id \in Accepted :
            FailsIn(id) =>
                IF jobs[id].attempts < maxRetries
                THEN /\ InQueue(queue', id)
                     /\ ~HasResult(id)'
                     /\ jobs'[id].attempts = jobs[id].attempts
                ELSE /\ HasResult(id)'
                     /\ completedJobs'[id].status = "failed"
                     /\ ~InQueue(queue', id)]_vars

\* a job has failed maxRetries times and carries its 'failed' result
C3_Witness ==
    \E id \in Accepted :
        /\ HasResult(id)
        /\ completedJobs[id].status = "failed"
        /\ jobs[id].attempts = maxRetries

\* C4: the chained dispatch calls drain the queue: no reachable state has jobs
\* waiting while no job is active and no retry timer is armed (from such a
\* state no event is left that would ever start the waiting jobs).
C4_NoStall == ~(queue # <<>> /\ activeJobs = {} /\ retryTimers = <<>>)

C6_DispatchBelowThreshold ==
    ( /\ disp.called
      /\ disp.len > 0
      /\ disp.act < maxConcurrentJobs
      /\ 10 * disp.act <= 7 * maxConcurrentJobs
      /\ 10 * disp.len <= 7 * jobQueueDepthLimit )
    => disp.started # NoId

\* C7: every accepted job that was not cancelled is in exactly one of the
\* waiting queue, the active set and the result store.
C7_ExactlyOnePlace ==
    \A id \in Accepted \ cancelled :
        /\ Places(id) = 1
        /\ Occurrences(queue, id) <= 1

\* the three places are occupied at once, one of them by a job that was retried
C7_Witness ==
    /\ queue # <<>>
    /\ activeJobs # {}
    /\ DOMAIN completedJobs # {}
    /\ \E id \in Accepted \ cancelled : jobs[id].attempts >= 2

\* C8: a recorded result is never replaced, changed or removed.
C8_ResultRecordedOnce ==
    [][\A id \in DOMAIN completedJobs :
          /\ id \in DOMAIN completedJobs'
          /\ completedJobs'[id] = completedJobs[id]]_vars

\* a job has its result while the render of one of its timed-out attempts is
\* still running and will finish late
C8_Witness ==
    \E w \in Stale : HasResult(w[1])

\* C9: the render of a timed-out attempt is aborted, so none is running when
\* processNext starts a job.
C9_NoStaleWorkAtStart == disp.started # NoId => Stale = {}

C11_CancelWaiting ==
    /\ [][\A id \in Ids :
            (CancelCall(id) /\ InQueue(queue, id)) =>
                /\ ret'.value = TRUE
                /\ queue' = Without(queue, id)
                /\ Len(queue') = Len(queue) - 1
                /\ UNCHANGED <<activeJobs, completedJobs>>
                /\ ~HasResult(id)']_vars
    /\ [](\A id \in cancelled :
            /\ id \notin activeJobs
            /\ ~InQueue(queue, id)
            /\ ~HasResult(id))
    /\ [][\A id \in cancelled : jobs'[id] = jobs[id]]_vars

\* a job that waited for its retry, behind or ahead of another waiting job,
\* was cancelled
C11_Witness ==
    /\ ret.op = "cancelJob"
    /\ ret.value = TRUE
    /\ jobs[ret.id].attempts >= 1
    /\ queue # <<>>

C13_RetryWaitsForBackoff ==
    [][\A id \in Accepted :
         (StartsIn(id) /\ jobs[id].attempts >= 1) => ~InQueue(retryTimers', id)]_vars

\* C14: a job that fails k < maxRetries times and then succeeds has one result,
\* of status 'completed', with attempts = k + 1; no failure before the
\* maxRetries-th records a result, so a result of a job with fewer than
\* maxRetries failed attempts is always 'completed'.
C14_FailThenSucceed ==
    /\ [](\A id \in Accepted :
            HasResult(id) =>
                IF failCount[id] < maxRetries
                THEN /\ completedJobs[id].status = "completed"
                     /\ jobs[id].attempts = failCount[id] + 1
                     /\ jobs[id].status = "completed"
                ELSE completedJobs[id].status = "failed")
    /\ [][\A id \in Accepted :
            (failCount'[id] > failCount[id] /\ failCount'[id] < maxRetries)
                => ~HasResult(id)']_vars

\* two failures, then the third attempt succeeded
C14_Witness ==
    \E id \in Accepted :
        /\ HasResult(id)
        /\ completedJobs[id].status = "completed"
        /\ failCount[id] = maxRetries - 1
        /\ jobs[id].attempts = maxRetries

\* C15: the delay executeWithTimeout arms is the larger of the tier's timeout
\* and the size-based timeout of a render: at least each of them, equal to one
\* of them, and it never decreases when the file grows or doubles.
C15_EffectiveTimeout ==
    /\ [](/\ armedTimeout >= tierTimeout(userTier)
          /\ armedTimeout >= getTimeoutForFileSize(fileSizeMB, "render")
          /\ armedTimeout \in {tierTimeout(userTier),
                                getTimeoutForFileSize(fileSizeMB, "render")})
    /\ [][fileSizeMB' >= fileSizeMB => armedTimeout' >= armedTimeout]_vars

\* a pro-tier file large enough for the size-based timeout to exceed the
\* tier's timeout
C15_Witness ==
    /\ userTier = "pro"
    /\ fileSizeMB > 100
    /\ armedTimeout = getTimeoutForFileSize(fileSizeMB, "render")
    /\ armedTimeout > tierTimeout("pro")

\* C16: getTimeoutForFileSize(size, op) = min(base * (1 + size/100), 3 * base):
\* 2 * base at size 100, 3 * base from size 200 on (90000 for size 300 and
\* base 30000), between base and 3 * base, and strictly larger for the larger
\* of two sizes below 200.
C16_SizeTimeout ==
    /\ [](LET base == baseTimeouts[operation] IN
            /\ 100 * sizeTimeout = Min(base * (100 + fileSizeMB), 300 * base)
            /\ fileSizeMB = 100 => sizeTimeout = 2 * base
            /\ fileSizeMB >= 200 => sizeTimeout = 3 * base
            /\ (fileSizeMB = 300 /\ base = 30000) => sizeTimeout = 90000
            /\ sizeTimeout >= base
            /\ sizeTimeout <= 3 * base)
    /\ [][(fileSizeMB' > fileSizeMB /\ fileSizeMB' < 200)
            => sizeTimeout' > sizeTimeout]_vars

\* the timeout of a 300 MB render is capped at 3 * 30000
C16_Witness ==
    /\ fileSizeMB = 300
    /\ operation = "render"
    /\ sizeTimeout = 90000

\* C17 (at the limits of the model): while nothing but submissions happens,
\* the first maxConcurrentJobs accepted jobs run and the next
\* jobQueueDepthLimit wait, so a submission is rejected only after
\* maxConcurrentJobs + jobQueueDepthLimit were accepted.
C17_RunningThenWaiting ==
    OnlySubmissions =>
        /\ Cardinality(activeJobs) = Min(nextId - 1, maxConcurrentJobs)
        /\ Len(queue) = (nextId - 1) - Min(nextId - 1, maxConcurrentJobs)
        /\ (ret.op = "enqueue" /\ ret.value = FALSE)
              => nextId - 1 = maxConcurrentJobs + jobQueueDepthLimit

\* C18: in a run without a failed attempt, when processNext starts a job no
\* job still waiting has a higher priority, and none of equal priority was
\* submitted before it.
C18_StartInPriorityOrder ==
    (disp.started # NoId /\ \A id \in Ids : failCount[id] = 0) =>
        \A i \in 1..Len(queue) :
            \/ jobs[queue[i]].priority < jobs[disp.started].priority
            \/ /\ jobs[queue[i]].priority = jobs[disp.started].priority
               /\ queue[i] > disp.started

\* a job was started ahead of a job of lower priority submitted before it
C18_Witness ==
    /\ disp.started # NoId
    /\ \A id \in Ids : failCount[id] = 0
    /\ \E i \in 1..Len(queue) :
          /\ queue[i] < disp.started
          /\ jobs[queue[i]].priority < jobs[disp.started].priority

\* C19: getStatus never raises; for an accepted job that was not cancelled it
\* gives the job's id with its current status, for an unknown id null.
C19_GetStatusTotal ==
    ret.op = "getStatus" =>
        /\ ~ret.value.raised
        /\ ret.id \in Accepted \ cancelled =>
              /\ ret.value.jobId = ret.id
              /\ ret.value.status = jobs[ret.id].status
        /\ ret.id \notin Accepted => ret.value.status = "null"

\* C20: an enqueue rejected with QUEUE_FULL leaves the waiting queue, the
\* active set, the result store, the job objects, the running attempts and
\* the timers as they were, and calls no processNext.
C20_RejectChangesNothing ==
    [][(ret'.op = "enqueue" /\ ret'.value = FALSE) =>
          /\ UNCHANGED <<queue, activeJobs, completedJobs, jobs, pending, work,
                         retryTimers, nextId, cancelled>>
          /\ disp'.called = FALSE]_vars

\* a submission was rejected while a job was running and others waited
C20_Witness ==
    /\ ret.op = "enqueue"
    /\ ret.value = FALSE
    /\ activeJobs # {}
    /\ Len(queue) = jobQueueDepthLimit

\* C21: when enqueue accepts a job while nothing is active and nothing waits,
\* the job is in the active set, 'processing', with attempts = 1 when enqueue
\* returns (the model has jobQueueDepthLimit >= 2).
C21_IdleEnqueueStarts ==
    [][(ret'.op = "enqueue" /\ ret'.value = TRUE /\ queue = <<>> /\ activeJobs = {})
         => /\ activeJobs' = {ret'.id}
            /\ queue' = <<>>
            /\ jobs'[ret'.id].status = "processing"
            /\ jobs'[ret'.id].attempts = 1
            /\ <<ret'.id, 1>> \in pending']_vars

\* a job submitted after an earlier one had finished was started by its enqueue
C21_Witness ==
    /\ ret.op = "enqueue"
    /\ ret.value = TRUE
    /\ activeJobs = {ret.id}
    /\ jobs[ret.id].attempts = 1
    /\ DOMAIN completedJobs # {}
    /\ disp.started = ret.id
    /\ disp.act = 0
    /\ disp.len = 1

\* the tier t2 ranks above the tier t1
HigherTier(t2, t1) ==
    <<t2, t1>> \in {<<"pro", "free">>, <<"enterprise", "free">>, <<"enterprise", "pro">>}

\* C22: calculatePriority(tier, size) = min(100, base + max(0, 20 - size/25)),
\* bases 80 / 50 / 20 (jobPriority is 25 times the value): it lies in [0, 100],
\* does not increase when the size grows, and a job of a higher tier, whatever
\* its size, has a strictly higher priority.
C22_PriorityByTier ==
    /\ [](/\ jobPriority >= 0
          /\ jobPriority <= 25 * 100
          /\ userTier = "enterprise" => jobPriority >= 25 * 80
          /\ userTier = "pro" => jobPriority >= 25 * 50 /\ jobPriority <= 25 * 70
          /\ userTier = "free" => jobPriority >= 25 * 20 /\ jobPriority <= 25 * 40
          /\ fileSizeMB >= 500 => jobPriority = 25 * tierPriority[userTier]
          /\ \A t2 \in Tiers, sz2 \in 0..MaxSizeMB :
                HigherTier(t2, userTier) => calculatePriority(t2, sz2) > jobPriority)
    /\ [][fileSizeMB' >= fileSizeMB => jobPriority' <= jobPriority]_vars

\* a pro-tier file too large for any size bonus
C22_Witness ==
    /\ userTier = "pro"
    /\ fileSizeMB > 500
    /\ jobPriority = 25 * 50

\* C23: getMetrics changes nothing and returns the waiting length, the size
\* of the active set, maxConcurrentJobs and activeJobs / maxConcurrent * 100,
\* which is at most 100.
C23_MetricsPureRead ==
    /\ [][ret'.op = "getMetrics" =>
            UNCHANGED <<queue, activeJobs, completedJobs, jobs, pending, work,
                        retryTimers, nextId, cancelled>>]_vars
    /\ [](ret.op = "getMetrics" =>
            /\ ret.value.queueDepth = Len(queue)
            /\ ret.value.activeJobs = Cardinality(activeJobs)
            /\ ret.value.maxConcurrent = maxConcurrentJobs
            /\ ret.value.utilizationPercent.num = 100 * Cardinality(activeJobs)
            /\ ret.value.utilizationPercent.den = maxConcurrentJobs
            /\ ret.value.utilizationPercent.num
                  <= 100 * ret.value.utilizationPercent.den)

\* the metrics were read while a job ran and the waiting queue was full
C23_Witness ==
    /\ ret.op = "getMetrics"
    /\ ret.value.activeJobs >= 1
    /\ ret.value.queueDepth >= jobQueueDepthLimit

\* C26: isFileSizeAllowed(size, tier) holds exactly when size <= the tier's
\* limit (free 50, pro 200, enterprise 500) and isFileSizeAllowed(size) exactly
\* when size <= the base maxFileSizeMB: the limit itself is allowed, the limit
\* plus one is not.
C26_SizeAllowed ==
    /\ sizeAllowed.tier <=> fileSizeMB <= TIER_FILE_SIZE_LIMITS[userTier]
    /\ sizeAllowed.base <=> fileSizeMB <= maxFileSizeMB
    /\ (userTier = "free" /\ fileSizeMB = 50) => sizeAllowed.tier
    /\ (userTier = "free" /\ fileSizeMB = 51) => ~sizeAllowed.tier
    /\ (userTier = "pro" /\ fileSizeMB = 200) => sizeAllowed.tier
    /\ (userTier = "pro" /\ fileSizeMB = 201) => ~sizeAllowed.tier
    /\ (userTier = "enterprise" /\ fileSizeMB = 500) => sizeAllowed.tier
    /\ (userTier = "enterprise" /\ fileSizeMB = 501) => ~sizeAllowed.tier
    /\ fileSizeMB = maxFileSizeMB => sizeAllowed.base
    /\ fileSizeMB = maxFileSizeMB + 1 => ~sizeAllowed.base

\* an enterprise file of 501 MB: over the tier's limit and over the base limit
C26_Witness ==
    /\ userTier = "enterprise"
    /\ fileSizeMB = 501
    /\ ~sizeAllowed.tier
    /\ ~sizeAllowed.base

\* the waiting queue as enqueue's insertion left it, before the processNext
\* call of the same step took a job off its head
AsInserted == IF disp'.started # NoId THEN <<disp'.started>> \o queue' ELSE queue'
\* the position of id in q
IndexOf(q, id) == CHOOSE i \in 1..Len(q) : q[i] = id

\* C28: an accepted job is inserted immediately before the first waiting entry
\* of strictly lower priority, at the end when there is none; the jobs already
\* waiting keep their order; when the queue was sorted, every job behind the
\* new one has a lower priority.
C28_InsertPosition ==
    [][(ret'.op = "enqueue" /\ ret'.value = TRUE) =>
         LET n == ret'.id
             p == jobs'[n].priority
             q == AsInserted
             k == IndexOf(q, n)
         IN /\ InQueue(q, n)
            /\ Without(q, n) = queue
            /\ Len(q) = Len(queue) + 1
            /\ \A i \in 1..(k - 1) : jobs'[q[i]].priority >= p
            /\ k < Len(q) => jobs'[q[k + 1]].priority < p
            /\ C2_QueueSorted =>
                  \A i \in (k + 1)..Len(q) : jobs'[q[i]].priority < p]_vars

\* the job just accepted waits ahead of a job submitted before it
C28_Witness ==
    /\ ret.op = "enqueue"
    /\ ret.value = TRUE
    /\ disp.started = NoId
    /\ Len(queue) >= 2
    /\ queue[1] = ret.id
    /\ jobs[queue[2]].priority < jobs[ret.id].priority

\* C29: a failed attempt with attempts < maxRetries takes the job out of the
\* active set, back to 'queued' with startedAt cleared, to the head of the
\* waiting queue; a job of the same priority never gets ahead of a waiting
\* retried job, so no job is started for the first time while a retried job
\* of its priority still waits.
C29_RetryAtHead ==
    /\ [][\A id \in Accepted :
            (FailsIn(id) /\ jobs[id].attempts < maxRetries) =>
                /\ id \notin activeJobs'
                /\ jobs'[id].status = "queued"
                /\ jobs'[id].started = FALSE
                /\ queue' = <<id>> \o queue]_vars
    /\ [](\A i, k \in 1..Len(queue) :
            ( /\ jobs[queue[k]].attempts >= 1
              /\ jobs[queue[i]].attempts = 0
              /\ jobs[queue[i]].priority = jobs[queue[k]].priority ) => k < i)
    /\ [][\A b \in Accepted' :
            (StartsIn(b) /\ jobs'[b].attempts = 1) =>
                \A i \in 1..Len(queue') :
                    ~( /\ jobs'[queue'[i]].attempts >= 1
                       /\ jobs'[queue'[i]].priority = jobs'[b].priority )]_vars

\* the enqueue of a new job started the retried job, which waited ahead of it
C29_Witness ==
    /\ ret.op = "enqueue"
    /\ ret.value = TRUE
    /\ disp.started # NoId
    /\ disp.started # ret.id
    /\ jobs[disp.started].attempts >= 2
    /\ InQueue(queue, ret.id)
    /\ jobs[ret.id].priority = jobs[disp.started].priority

\* C30: attempts is 0 when the job is accepted, grows by exactly 1 when the
\* job moves from the waiting queue into the active set and changes at no
\* other time; it never exceeds maxRetries.
C30_AttemptsCountStarts ==
    /\ [][\A id \in Accepted' :
            /\ jobs'[id].attempts =
                  (IF id \in Accepted THEN jobs[id].attempts ELSE 0)
                  + (IF StartsIn(id) THEN 1 ELSE 0)
            /\ StartsIn(id) => (id \notin Accepted \/ InQueue(queue, id))]_vars
    /\ [](\A id \in Accepted :
            /\ jobs[id].attempts <= maxRetries
            /\ jobs[id].attempts = failCount[id]
                  + (IF id \in activeJobs THEN 1 ELSE 0)
                  + (IF jobs[id].status = "completed" THEN 1 ELSE 0))

\* a job is running its last allowed attempt
C30_Witness ==
    \E id \in activeJobs :
        /\ jobs[id].attempts = maxRetries
        /\ failCount[id] = maxRetries - 1

\* a sync of file f waits or is in flight
SyncUnderWay(f) ==
    \/ \E i \in 1..Len(syncQueue) : syncQueue[i].file = f
    \/ \E it \in syncPending : it.file = f

\* C24: getFileStatus reports 'synced' only when the file's latest sync has
\* completed successfully: not while a sync of the file waits or is in
\* flight, and not after its latest sync failed, timed out or was cancelled.
C24_SyncedReflectsReality ==
    \A f \in Files :
        getFileStatus(f) = "synced" =>
            /\ ~SyncUnderWay(f)
            /\ lastEnded[f] = "completed"

\* C25: queueSync accepts a file exactly when its size is within the limit
\* of the caller's tier (free 50, pro 200, enterprise 500) and rejects every
\* other with FILE_TOO_LARGE.
C25_QueueSyncTierLimit ==
    syncRet.op = "queueSync" =>
        /\ syncRet.value <=> syncRet.size <= TIER_FILE_SIZE_LIMITS[syncRet.tier]
        /\ ~syncRet.value => syncRet.code = "FILE_TOO_LARGE"

\* C27: when cancelExport(jobId) is called while exportFile for that job is in
\* flight it returns true, and the result of every export so cancelled has the
\* status 'cancelled', which is neither 'failed' nor 'timeout'.
C27_CancelOutcome ==
    /\ exportRet.op = "cancelExport" /\ exportRet.inFlight => exportRet.value
    /\ \A c \in exportCancelled :
          exportCalls[c].phase = "returned" => exportCalls[c].status = "cancelled"

\* C31: the waiting queue never holds more than jobQueueDepthLimit jobs, also
\* when a failed job is put back for a retry while the queue is full.
C31_QueueDepthBound == Len(queue) <= jobQueueDepthLimit

\* the syncs processNextSync started that have not completed, failed, timed out
\* or been aborted
SyncsInFlight == syncPending \ syncAborted

\* C32: the number of syncs in flight never exceeds maxConcurrentJobs, also
\* when the same file is queued more than once or again after a cancelSync.
C32_SyncConcurrencyBound == Cardinality(SyncsInFlight) <= maxConcurrentJobs

\* file f has a queued or an active sync
HasSync(f) ==
    \/ \E i \in 1..Len(syncQueue) : syncQueue[i].file = f
    \/ \E it \in SyncsInFlight : it.file = f

\* the step is a cancelSync(f) call
CancelSyncCall(f) == syncRet'.op = "cancelSync" /\ syncRet'.file = f

\* C33: cancelSync(fileId) returns true when the file has a queued or an active
\* sync and false, changing nothing, when it has neither; a second call right
\* after the first returns false.
C33_CancelSyncTwice ==
    [][\A f \in Files :
          CancelSyncCall(f) =>
              /\ syncRet'.value <=> HasSync(f)
              /\ ~HasSync(f) =>
                     UNCHANGED <<syncQueue, activeSyncs, fileVersions, syncPending,
                                 syncWork, syncAborted>>
              /\ syncRet.op = "cancelSync" /\ syncRet.file = f => ~syncRet'.value]_vars

\* C34: a queueSync call made while the sync queue holds jobQueueDepthLimit
\* items is rejected with a QueueFull error and leaves the queue as it is, so
\* the sync queue never holds more than jobQueueDepthLimit items.
C34_SyncQueueFull ==
    /\ [](Len(syncQueue) <= jobQueueDepthLimit)
    /\ [][Len(syncQueue) >= jobQueueDepthLimit /\ syncRet'.op = "queueSync" =>
             /\ ~syncRet'.value
             /\ syncRet'.code = "QUEUE_FULL"
             /\ syncQueue' = syncQueue]_vars

\* C35 as stated: getJobStatus(id) is non-null exactly when the id is active,
\* waiting or has a result, and gives the active entry first, then the waiting
\* entry, and the result only last.
C35_LookupActiveQueueResult ==
    \A id \in Ids :
        LET status == getJobStatus(id) IN
        /\ status.kind # "null" <=>
               id \in activeJobs \/ InQueue(queue, id) \/ HasResult(id)
        /\ id \in activeJobs => status.kind = "job"
        /\ id \notin activeJobs /\ InQueue(queue, id) => status.kind = "job"
        /\ id \notin activeJobs /\ ~InQueue(queue, id) /\ HasResult(id) =>
               status.kind = "result"

\* C35, amended: getJobStatus(id) is non-null exactly when the id is active,
\* waiting or has a result, and gives the active entry first, then the result,
\* and the waiting entry only last.
C35_LookupActiveResultQueue ==
    \A id \in Ids :
        LET status == getJobStatus(id) IN
        /\ status.kind # "null" <=>
               id \in activeJobs \/ InQueue(queue, id) \/ HasResult(id)
        /\ id \in activeJobs =>
               status.kind = "job" /\ status.status = jobs[id].status
        /\ id \notin activeJobs /\ HasResult(id) =>
               status.kind = "result" /\ status.status = completedJobs[id].status
        /\ id \notin activeJobs /\ ~HasResult(id) /\ InQueue(queue, id) =>
               status.kind = "job" /\ status.status = jobs[id].status

\* a job submitted again waits while its earlier result is still stored, and
\* getStatus has just looked it up
C35_Witness ==
    \E id \in Ids :
        /\ InQueue(queue, id)
        /\ HasResult(id)
        /\ ret.op = "getStatus"
        /\ ret.id = id

\* the exportFile calls made before the step, and the one made in it
EarlierCalls == 1..Len(exportCalls)
NewCalls == (1..Len(exportCalls')) \ EarlierCalls

\* a call has a result exactly when it has returned, and the result of a
\* returned call is completed, timeout with EXPORT_TIMEOUT, or failed
ExportResultsWellFormed ==
    \A c \in 1..Len(exportCalls) :
        /\ exportCalls[c].phase = "returned" <=> exportCalls[c].status # "none"
        /\ exportCalls[c].status \in {"none", "completed", "timeout", "failed"}
        /\ exportCalls[c].status = "timeout" <=> exportCalls[c].code = "EXPORT_TIMEOUT"

\* a result, once returned, stays; a call that was awaiting its export returns
\* completed when the work finished (the deadline had not fired) and timeout when
\* the deadline fired first (the work goes on), failed otherwise; the returning
\* call's job id is then not in activeExports
ExportReturns ==
    \A c \in EarlierCalls :
        /\ exportCalls[c].phase = "returned" =>
               /\ exportCalls'[c].status = exportCalls[c].status
               /\ exportCalls'[c].code = exportCalls[c].code
               /\ exportCalls'[c].phase = "returned"
        /\ exportCalls[c].phase = "running" /\ exportCalls'[c].phase = "returned" =>
               /\ \/ exportCalls'[c].status = "completed" /\ ~exportCalls'[c].work
                  \/ exportCalls'[c].status = "timeout" /\ exportCalls'[c].work
               /\ activeExports'[exportCalls[c].job] = NoCall
        /\ exportCalls[c].phase = "aborted" /\ exportCalls'[c].phase = "returned" =>
               /\ exportCalls'[c].status = "failed"
               /\ activeExports'[exportCalls[c].job] = NoCall

\* C36 as stated: exportFile gives exactly one result per call, completed when
\* the work finishes before the deadline, timeout with EXPORT_TIMEOUT when the
\* deadline fires first, failed otherwise; a request that fails validation never
\* enters activeExports; after any call returns, its job id is not in
\* activeExports.
C36_OneResultNoEntryLeft ==
    /\ []ExportResultsWellFormed
    /\ [][/\ ExportReturns
          /\ \A c \in NewCalls :
                exportCalls'[c].phase = "returned" =>
                    /\ exportCalls'[c].status = "failed"
                    /\ activeExports' = activeExports
                    /\ activeExports'[exportCalls'[c].job] = NoCall]_vars

\* C36, amended: the same, but only a call that entered activeExports leaves its
\* job id out of activeExports when it returns; a request that fails validation
\* leaves activeExports as it is.
C36_OneResultOwnEntryLeft ==
    /\ []ExportResultsWellFormed
    /\ [][/\ ExportReturns
          /\ \A c \in NewCalls :
                exportCalls'[c].phase = "returned" =>
                    /\ exportCalls'[c].status = "failed"
                    /\ activeExports' = activeExports]_vars

\* one export has timed out, and a request that fails validation has returned
\* while an export under the same job id is awaiting its result
C36_Witness ==
    /\ \E c \in 1..Len(exportCalls) : exportCalls[c].status = "timeout"
    /\ \E c \in 1..Len(exportCalls) :
          /\ c = Len(exportCalls)
          /\ exportCalls[c].code = "FILE_TOO_LARGE"
          /\ activeExports[exportCalls[c].job] # NoCall

\* the places in batch.results of the results that count as failures
BatchFailures ==
    {i \in 1..Len(batch.results) : batch.results[i].status \in {"failed", "timeout"}}

\* C37: batchExport returns the results in request order; with batch
\* optimization enabled one result for every requested format, with it disabled
\* the results up to and including the first of status failed or timeout and
\* none for later formats.
C37_BatchStopsAtFailure ==
    batch.returned =>
        /\ \A i \in 1..Len(batch.results) : batch.results[i].format = i
        /\ batch.enableBatchOptimization => Len(batch.results) = batch.formats
        /\ ~batch.enableBatchOptimization =>
               Len(batch.results) =
                   IF BatchFailures = {} THEN batch.formats
                   ELSE CHOOSE i \in BatchFailures : \A k \in BatchFailures : i <= k

\* request r waits in the sync queue
SyncQueued(r) == \E i \in 1..Len(syncQueue) : syncQueue[i].rid = r

\* C38: under fairness of sync completion every accepted item leaves the sync
\* queue, started unless it was cancelled, and a file whose sync was started
\* ends with status 'synced' or 'error'.
C38_SyncEventuallyDone ==
    /\ \A r \in SyncRequests : SyncQueued(r) ~> ~SyncQueued(r)
    /\ \A f \in Files :
          fileVersions[f] = "syncing" ~> fileVersions[f] \in {"synced", "error"}

\* queueSync has accepted a request that waits because every slot is taken
C38_Witness ==
    /\ syncRet.op = "queueSync"
    /\ syncRet.value
    /\ syncQueue # <<>>
    /\ Cardinality(DOMAIN activeSyncs) = maxConcurrentJobs

\* the step is a submitRender call
SubmitCall == ret'.op = "submitRender"

\* a submitRender call enqueues only a valid file within the caller's tier
\* limit, and a call with a file over the tier limit enqueues nothing and
\* leaves the waiting queue, the active set and the result store as they were
SubmitOnlyWithinTier ==
    SubmitCall =>
        /\ ret'.value =>
               /\ validateFile(ret'.size, ret'.supported) = "none"
               /\ ret'.size <= TIER_FILE_SIZE_LIMITS[ret'.tier]
               /\ InQueue(queue', ret'.id) \/ ret'.id \in activeJobs'
        /\ ret'.size > TIER_FILE_SIZE_LIMITS[ret'.tier] =>
               /\ ~ret'.value
               /\ UNCHANGED <<queue, activeJobs, completedJobs>>

\* C39 as stated: submitRender enqueues a job only when the file passes
\* validation and its size is within the caller's tier limit; when the size
\* exceeds the tier limit it returns FILE_TOO_LARGE and leaves the waiting
\* queue, the active set and the result store unchanged.
C39_SubmitTooLargeAlways ==
    [][/\ SubmitOnlyWithinTier
       /\ SubmitCall /\ ret'.size > TIER_FILE_SIZE_LIMITS[ret'.tier] =>
              ret'.code = "FILE_TOO_LARGE"]_vars

\* C39, amended: the same, the error being FILE_TOO_LARGE when the file is of a
\* supported format or exceeds the base limit too, and UNSUPPORTED_FORMAT when a
\* file of an unsupported format is within the base limit.
C39_SubmitTooLargeOrFormat ==
    [][/\ SubmitOnlyWithinTier
       /\ SubmitCall /\ ret'.size > TIER_FILE_SIZE_LIMITS[ret'.tier] =>
              ret'.code = IF ret'.supported \/ ret'.size > maxFileSizeMB
                          THEN "FILE_TOO_LARGE" ELSE "UNSUPPORTED_FORMAT"]_vars

\* a file of a supported format, over the caller's tier limit and within the
\* base limit, was refused with FILE_TOO_LARGE while a job was waiting
C39_Witness ==
    /\ ret.op = "submitRender"
    /\ ret.supported
    /\ ret.size > TIER_FILE_SIZE_LIMITS[ret.tier]
    /\ ret.size <= maxFileSizeMB
    /\ ret.code = "FILE_TOO_LARGE"
    /\ queue # <<>>

====
